---- MODULE Spec2Model ----
(***************************************************************************)
(* The coordinator of the distributed log analyzer (src/coordinator.py),   *)
(* the metrics aggregator (src/analyzer.py) and the worker's chunk summary *)
(* (src/worker.py), as state machines.                                     *)
(***************************************************************************)
EXTENDS Integers, Sequences, FiniteSets, Bags, TLC

\* ------------------------------------------------------------------ bounds
NumWorkers == 3
MaxFileSize == 4
MaxCalls == 2
MaxReports == 2
MaxPartSize == 12
MaxPartWorkers == 4

WorkerIds == 1..NumWorkers
Files == {"a.log"}

\* os.path.getsize(filepath)
GetSize(filepath) == MaxFileSize

\* A worker process is started with one fixed port (worker.py --port).
PortOf(id) == 8000 + id

\* The counts a worker may report for a chunk.
Summaries ==
  { [request_count |-> 1, error_count |-> 0, total_response_time |-> 2],
    [request_count |-> 1, error_count |-> 1, total_response_time |-> 0] }

VARIABLES
  workers,   \* Coordinator.workers: the dict, in insertion order
  results,   \* Coordinator.results: worker_id -> last reported metrics
  metrics,   \* Coordinator.analyzer.metrics
  dist,      \* the distribute_work call: its position and what it printed
  tasks,     \* the coroutines gathered by distribute_work
  held,      \* per worker: the assignments it acknowledged and has not reported
  merged,    \* bag of the assignments whose summary update_metrics has merged
  part,      \* distribute_work's partition loop on its own: size, workers, idx, ranges
  agg,       \* analyzer.Analyzer.metrics (analyzer.py)
  aggLog,    \* the summaries update_metrics was called with, in call order
  http,      \* the coordinator's HTTP server: requests in flight, replies sent
  wk         \* a worker running process_work or process_chunk

coordVars == <<workers, results, metrics, dist, tasks, held, merged>>

\* the variables of the specifications that run one function on its own
pureVars == <<part, agg, aggLog, http, wk>>

vars == <<workers, results, metrics, dist, tasks, held, merged, part, agg, aggLog, http, wk>>

\* ------------------------------------------------------------- data shapes
NoAsg == [filepath |-> "", start |-> 0, size |-> 0, call |-> 0]

DoneTask == [st |-> "done", w |-> 0, port |-> 0, asg |-> NoAsg, loops |-> <<>>]

RaisedTask == [st |-> "raised", w |-> 0, port |-> 0, asg |-> NoAsg, loops |-> <<>>]

\* self.workers.items() keeps insertion order; IndexOf is the key lookup.
IndexOf(ws, id) ==
  IF \E k \in 1..Len(ws) : ws[k].id = id
  THEN CHOOSE k \in 1..Len(ws) : ws[k].id = id
  ELSE 0

\* The list without the "healthy" filter.
AvailableWorkersAll(ws) == [k \in 1..Len(ws) |-> ws[k].id]

\* [worker_id for worker_id, worker in self.workers.items() if worker["healthy"]]
AvailableWorkers(ws) ==
  LET sel == SelectSeq(ws, LAMBDA r : r.healthy)
  IN  [k \in 1..Len(sel) |-> sel[k].id]

\* self.workers[worker_id]["port"]
WorkerPort(ws, id) == ws[IndexOf(ws, id)].port

\* ------------------------------------------------------- the partition
\* chunk_size = file_size // len(available_workers)
ChunkSize(file_size, n) == file_size \div n

\* start = idx * chunk_size (idx is 0-based)
ChunkStart(idx, chunk_size) == idx * chunk_size

\* The last range forgets the remainder.
ChunkLenEqual(idx, n, chunk_size, file_size) == chunk_size

\* size = chunk_size if idx < len(available_workers) - 1 else file_size - start
ChunkLen(idx, n, chunk_size, file_size) ==
  IF idx < n - 1 THEN chunk_size ELSE file_size - ChunkStart(idx, chunk_size)

\* ------------------------------------------------ Python float arithmetic
\* A Python float is an IEEE-754 binary64. The values here are zero or
\* positive and far from the subnormal and overflow ranges, so a float is
\* FZero or [m, e] with value m * 2^e, m the 53-bit significand
\* (2^52 <= m < 2^53). Every operation rounds its exact result to nearest,
\* ties to even. Integers wider than 31 bits are digit strings in base
\* 2^15, most significant digit first; m is kept as four such digits.
MantBits == 53
DigitBits == 15
MantDigits == 4
Base == 2 ^ DigitBits

FZero == [m |-> <<>>, e |-> 0]

Zeros(k) == [i \in 1..k |-> 0]

\* digits without leading zero digits
StripZeros(ds) ==
  IF \A i \in 1..Len(ds) : ds[i] = 0
  THEN <<>>
  ELSE LET f == CHOOSE i \in 1..Len(ds) :
                  ds[i] # 0 /\ \A j \in 1..(i - 1) : ds[j] = 0
       IN  SubSeq(ds, f, Len(ds))

\* digits padded with leading zeros to n digits, or cut to the last n
Fit(ds, n) ==
  IF Len(ds) >= n
  THEN SubSeq(ds, Len(ds) - n + 1, Len(ds))
  ELSE Zeros(n - Len(ds)) \o ds

\* number of bits of the positive number ds
BitLen(ds) ==
  LET t == StripZeros(ds)
  IN  IF t = <<>>
      THEN 0
      ELSE DigitBits * (Len(t) - 1)
           + (CHOOSE k \in 1..DigitBits : 2 ^ (k - 1) <= t[1] /\ t[1] < 2 ^ k)

\* the digits of an int 0 <= n < 2^30
Digits(n) ==
  IF n = 0 THEN <<>>
  ELSE IF n < Base THEN <<n>> ELSE <<n \div Base, n % Base>>

\* ds * k + c for ints 0 <= k, c < 2^16: as many digits as needed
RECURSIVE MulSmall(_, _, _)
MulSmall(ds, k, c) ==
  IF ds = <<>>
  THEN Digits(c)
  ELSE LET n == Len(ds)
           v == ds[n] * k + c
       IN  Append(MulSmall(SubSeq(ds, 1, n - 1), k, v \div Base), v % Base)

\* long division of ds by an int 0 < n < 2^16, entered with remainder r
RECURSIVE DivSmall(_, _, _)
DivSmall(ds, n, r) ==
  IF ds = <<>>
  THEN [q |-> <<>>, r |-> r]
  ELSE LET v == r * Base + ds[1]
           rest == DivSmall(Tail(ds), n, v % n)
       IN  [q |-> <<v \div n>> \o rest.q, r |-> rest.r]

\* a + b + c for two digit strings of the same length, carry c in 0..1
RECURSIVE AddDigits(_, _, _)
AddDigits(a, b, c) ==
  IF a = <<>>
  THEN Digits(c)
  ELSE LET n == Len(a)
           v == a[n] + b[n] + c
       IN  Append(AddDigits(SubSeq(a, 1, n - 1), SubSeq(b, 1, n - 1), v \div Base),
                  v % Base)

\* ds * 2^t
ShiftLeft(ds, t) ==
  MulSmall(ds, 2 ^ (t % DigitBits), 0) \o Zeros(t \div DigitBits)

\* floor(ds / 2^t), and whether a 1 bit was shifted out
ShiftRight(ds, t) ==
  LET a == t \div DigitBits
      n == Len(ds)
      top == SubSeq(ds, 1, n - a)
      low == SubSeq(ds, n - a + 1, n)
      d == DivSmall(top, 2 ^ (t % DigitBits), 0)
  IN  [q |-> d.q, lost |-> d.r # 0 \/ \E i \in 1..Len(low) : low[i] # 0]

\* The float nearest to ds * 2^e (plus a fraction below the last bit when
\* sticky), for a positive number ds.
RoundBig(ds, e, sticky) ==
  LET n == BitLen(ds)
  IN  IF n <= MantBits
      THEN [m |-> Fit(ShiftLeft(ds, MantBits - n), MantDigits), e |-> e - (MantBits - n)]
      ELSE LET s == ShiftRight(ds, n - MantBits - 1)
               h == DivSmall(s.q, 2, 0)
               guard == h.r
               keep == Fit(h.q, MantDigits)
               rest == sticky \/ s.lost
               up == guard = 1 /\ (rest \/ keep[MantDigits] % 2 = 1)
               e1 == e + (n - MantBits)
               inc == MulSmall(keep, 1, 1)
           IN  IF ~up
               THEN [m |-> keep, e |-> e1]
               ELSE IF BitLen(inc) = MantBits
               THEN [m |-> Fit(inc, MantDigits), e |-> e1]
               ELSE [m |-> Fit(DivSmall(inc, 2, 0).q, MantDigits), e |-> e1 + 1]

\* float(n) for an int 0 <= n < 2^16
FromInt(n) == IF n = 0 THEN FZero ELSE RoundBig(Digits(n), 0, FALSE)

\* x * k for a float x and an int 0 <= k < 2^16
FMulInt(x, k) ==
  IF x = FZero \/ k = 0
  THEN FZero
  ELSE RoundBig(MulSmall(x.m, k, 0), x.e, FALSE)

\* x / n for a float x and an int 0 < n < 2^16
FDivInt(x, n) ==
  IF x = FZero
  THEN FZero
  ELSE LET d == DivSmall(x.m \o Zeros(MantDigits), n, 0)
       IN  RoundBig(d.q, x.e - MantDigits * DigitBits, d.r # 0)

\* x + y
FAdd(x, y) ==
  IF x = FZero THEN y
  ELSE IF y = FZero THEN x
  ELSE LET e == IF x.e < y.e THEN x.e ELSE y.e
           a == ShiftLeft(x.m, x.e - e)
           b == ShiftLeft(y.m, y.e - e)
           n == IF Len(a) > Len(b) THEN Len(a) ELSE Len(b)
       IN  RoundBig(AddDigits(Fit(a, n), Fit(b, n), 0), e, FALSE)

\* ------------------------------------------------------ analyzer.Analyzer
\* The results dict process_work builds for a chunk with n parsed lines, e of
\* them ERROR, response times summing to t, and rps parsed lines per second.
\* total_response_time is process_work's local sum: the key
\* coordinator.Analyzer.update_metrics reads.
WorkerResults(n, e, t, rps) ==
  [ request_count |-> n,
    error_count |-> e,
    total_response_time |-> t,
    error_rate |-> IF n > 0 THEN FDivInt(FromInt(e), n) ELSE FZero,
    avg_response_time |-> IF n > 0 THEN FDivInt(FromInt(t), n) ELSE FZero,
    request_count_per_second |-> rps ]

NoSeconds == [k \in {} |-> 0]

\* Analyzer.__init__
AnalyzerInit ==
  [ total_requests |-> 0,
    total_errors |-> 0,
    total_response_time |-> FZero,
    worker_count |-> 0,
    error_rate |-> FZero,
    avg_response_time |-> FZero,
    request_count_per_second |-> NoSeconds ]

\* the for loop of update_metrics over new_data['request_count_per_second']
AddSeconds(old, new) ==
  [ k \in DOMAIN old \cup DOMAIN new |->
      IF k \in DOMAIN new
      THEN IF k \in DOMAIN old THEN old[k] + new[k] ELSE new[k]
      ELSE old[k] ]

\* the same loop with the count assigned in both branches
SetSeconds(old, new) ==
  [ k \in DOMAIN old \cup DOMAIN new |->
      IF k \in DOMAIN new THEN new[k] ELSE old[k] ]

\* update_metrics up to worker_count += 1
AddTotals(m, new_data, seconds) ==
  [ m EXCEPT
      !.total_requests = @ + new_data.request_count,
      !.total_errors = @ + new_data.error_count,
      !.total_response_time =
         FAdd(@, FMulInt(new_data.avg_response_time, new_data.request_count)),
      !.request_count_per_second = seconds,
      !.worker_count = @ + 1 ]

\* the recalculation that ends update_metrics
Recalculate(m) ==
  IF m.total_requests > 0
  THEN [ m EXCEPT
           !.error_rate = FDivInt(FromInt(m.total_errors), m.total_requests),
           !.avg_response_time = FDivInt(m.total_response_time, m.total_requests) ]
  ELSE m

\* update_metrics assigning each per-second count
UpdateMetricsAssign(m, new_data) ==
  Recalculate(AddTotals(m, new_data,
     SetSeconds(m.request_count_per_second, new_data.request_count_per_second)))

\* update_metrics without the recalculation
UpdateMetricsStale(m, new_data) ==
  AddTotals(m, new_data,
     AddSeconds(m.request_count_per_second, new_data.request_count_per_second))

\* Analyzer.update_metrics (analyzer.py)
UpdateMetrics(m, new_data) ==
  Recalculate(AddTotals(m, new_data,
     AddSeconds(m.request_count_per_second, new_data.request_count_per_second)))

\* Analyzer.get_current_metrics (analyzer.py)
GetCurrentMetrics(m) ==
  [ total_requests |-> m.total_requests,
    total_errors |-> m.total_errors,
    error_rate |-> m.error_rate,
    avg_response_time |-> m.avg_response_time,
    request_count_per_second |-> m.request_count_per_second ]

\* Analyzer.get_current_metrics (coordinator.py)
CoordGetCurrentMetrics(m) ==
  [ error_count |-> m.error_count,
    request_count |-> m.request_count,
    average_response_time_ms |->
       IF m.request_count > 0
       THEN FDivInt(FromInt(m.total_response_time), m.request_count)
       ELSE FZero,
    error_rate |->
       IF m.request_count > 0
       THEN FDivInt(FromInt(m.error_count), m.request_count)
       ELSE FZero ]

\* ------------------------------------------------------------ HTTP shapes
\* no request in flight, nothing answered, nothing merged
HttpIdle == [reqs |-> <<>>, replies |-> <<>>, log |-> <<>>, sent |-> 0]

\* a worker that has not been given anything to do
WorkerIdle == [op |-> "idle", pc |-> "idle"]

\* ------------------------------------------------------------------- init
NoPart == [file_size |-> 0, n |-> 0, idx |-> 0, ranges |-> <<>>]

CoordInit ==
  /\ workers = <<>>
  /\ results = [w \in WorkerIds |-> <<>>]
  /\ metrics = [error_count |-> 0, total_response_time |-> 0, request_count |-> 0]
  /\ dist = [pc |-> "idle", calls |-> 0, ret |-> "", out |-> {}, chunks |-> {}]
  /\ tasks = <<>>
  /\ held = [w \in WorkerIds |-> <<>>]
  /\ merged = EmptyBag

Init ==
  /\ CoordInit
  /\ part = NoPart
  /\ agg = AnalyzerInit
  /\ aggLog = <<>>
  /\ http = HttpIdle
  /\ wk = WorkerIdle

\* ------------------------------------------------------ registry handlers
\* register_worker adding a record on every call
RegisterWorkerAppend(ws, id, port) ==
  Append(ws, [id |-> id, port |-> port, healthy |-> TRUE])

\* register_worker: self.workers[worker_id] = {"port": ..., "healthy": True}
RegisterWorker(ws, id, port) ==
  LET rec == [id |-> id, port |-> port, healthy |-> TRUE]
      k == IndexOf(ws, id)
  IN  IF k > 0 THEN [ws EXCEPT ![k] = rec] ELSE Append(ws, rec)

\* Worker ids are interchangeable labels, so only the runs in which new ids
\* show up in increasing order are explored (any other run is a renaming).
Register(id) ==
  /\ id <= Len(workers) + 1
  /\ workers' = RegisterWorker(workers, id, PortOf(id))
  /\ UNCHANGED <<results, metrics, dist, tasks, held, merged, pureVars>>

\* health_handler: a known worker becomes healthy, an unknown one is ignored
HealthUpdate(ws, id) ==
  LET k == IndexOf(ws, id)
  IN  IF k > 0 THEN [ws EXCEPT ![k].healthy = TRUE] ELSE ws

Health(id) ==
  /\ workers' = HealthUpdate(workers, id)
  /\ UNCHANGED <<results, metrics, dist, tasks, held, merged, pureVars>>

\* ------------------------------------------------------ coordinator Analyzer
\* Analyzer.update_metrics (coordinator.py): three running sums
CoordUpdateMetrics(m, new_data) ==
  [ error_count |-> m.error_count + new_data.error_count,
    total_response_time |-> m.total_response_time + new_data.total_response_time,
    request_count |-> m.request_count + new_data.request_count ]

\* The body of a POST /metrics: the counts, and (when the worker echoes its
\* assignment) the filepath/start/size keys redistribute_failed_tasks reads.
Payload(summary, has_task, asg) ==
  [ error_count |-> summary.error_count,
    total_response_time |-> summary.total_response_time,
    request_count |-> summary.request_count,
    has_task |-> has_task,
    task |-> IF has_task THEN asg ELSE NoAsg ]

\* metrics_handler: self.results[worker_id] = worker_metrics, then the merge.
\* The worker reports the summary of the oldest assignment it acknowledged.
MetricsHandler(id, summary, has_task) ==
  /\ held[id] # <<>>
  /\ BagCardinality(merged) < MaxReports
  /\ LET asg == Head(held[id])
         data == Payload(summary, has_task, asg)
     IN  /\ results' = [results EXCEPT ![id] = <<data>>]
         /\ metrics' = CoordUpdateMetrics(metrics, data)
         /\ held' = [held EXCEPT ![id] = Tail(held[id])]
         /\ merged' = merged (+) SetToBag({asg})
  /\ UNCHANGED <<workers, dist, tasks, pureVars>>

\* ------------------------------------------------------------ distribute_work
\* The coroutine send_chunk_to_worker(worker_id, filepath, start, size, port),
\* suspended at session.post.
SendTask(id, asg, port, loops) ==
  [st |-> "post", w |-> id, port |-> port, asg |-> asg, loops |-> loops]

\* tasks.append(self.send_chunk_to_worker(...)) for each available worker
InitialTasks(ws, avail, filepath, file_size, call) ==
  LET n == Len(avail)
      chunk_size == ChunkSize(file_size, n)
  IN  [ k \in 1..n |->
          SendTask(avail[k],
                   [ filepath |-> filepath,
                     start |-> ChunkStart(k - 1, chunk_size),
                     size |-> ChunkLen(k - 1, n, chunk_size, file_size),
                     call |-> call ],
                   WorkerPort(ws, avail[k]),
                   <<>>) ]

AllSettled(ts) == \A t \in 1..Len(ts) : ts[t].st # "post"

Distribute(filepath) ==
  /\ dist.pc # "running"
  /\ AllSettled(tasks)
  /\ dist.calls < MaxCalls
  /\ LET avail == AvailableWorkers(workers)
         call == dist.calls + 1
         file_size == GetSize(filepath)
     IN  IF avail = <<>>
         THEN /\ dist' = [pc |-> "returned", calls |-> call, ret |-> "None",
                          out |-> {"NoAvailableWorkers"}, chunks |-> {}]
              /\ tasks' = <<>>
         ELSE /\ tasks' = InitialTasks(workers, avail, filepath, file_size, call)
              /\ dist' = [pc |-> "running", calls |-> call, ret |-> "", out |-> {},
                          chunks |-> {tasks'[k].asg : k \in 1..Len(tasks')}]
  /\ UNCHANGED <<workers, results, metrics, held, merged, pureVars>>

\* ------------------------------------------------- send_chunk_to_worker
\* What a task does once its send_chunk_to_worker call returns: control goes
\* back to the for loop of the redistribute_failed_tasks call that awaited it
\* (the top of loops), which posts to the next worker of its list or returns
\* to its own caller, up to the gathered coroutine itself.
RECURSIVE Resume(_, _)
Resume(loops, ws) ==
  IF loops = <<>>
  THEN DoneTask
  ELSE LET n == Len(loops)
           top == loops[n]
       IN  IF top.i < Len(top.avail)
           THEN SendTask(top.avail[top.i + 1], top.asg,
                         WorkerPort(ws, top.avail[top.i + 1]),
                         [loops EXCEPT ![n].i = top.i + 1])
           ELSE Resume(SubSeq(loops, 1, n - 1), ws)

\* handle_worker_failure: self.workers[worker_id]["healthy"] = False
MarkFailed(ws, id) ==
  LET k == IndexOf(ws, id)
  IN  IF k > 0 THEN [ws EXCEPT ![k].healthy = FALSE] ELSE ws

\* redistribute_failed_tasks(failed_worker_tasks), entered from the except
\* clause of the task's current send: the task afterwards, and what it printed.
Redistribute(tk, ft, ws) ==
  IF ft = <<>>
  THEN [task |-> Resume(tk.loops, ws), out |-> {"NoTasksToRedistribute"}]
  ELSE LET avail == AvailableWorkers(ws)
       IN  IF avail = <<>>
           THEN [task |-> Resume(tk.loops, ws), out |-> {"NoWorkersToRedistribute"}]
           ELSE IF ~ft[1].has_task
           THEN [task |-> RaisedTask, out |-> {}]
           ELSE [task |-> SendTask(avail[1], ft[1].task, WorkerPort(ws, avail[1]),
                                   Append(tk.loops,
                                          [asg |-> ft[1].task, avail |-> avail, i |-> 1])),
                 out |-> {}]

\* asyncio.gather: distribute_work resumes when every task has returned, or
\* with the first exception a task raises (the other tasks keep running).
Gathered(d, ts, t, out) ==
  IF d.pc # "running"
  THEN d
  ELSE IF ts[t].st = "raised"
  THEN [d EXCEPT !.pc = "raised", !.ret = "KeyError", !.out = d.out \cup out]
  ELSE IF \A k \in 1..Len(ts) : ts[k].st = "done"
  THEN [d EXCEPT !.pc = "returned", !.ret = "None", !.out = d.out \cup out]
  ELSE [d EXCEPT !.out = d.out \cup out]

\* response.status == 200
DispatchAcked(t) ==
  /\ t \in 1..Len(tasks)
  /\ tasks[t].st = "post"
  /\ held' = [held EXCEPT ![tasks[t].w] = Append(held[tasks[t].w], tasks[t].asg)]
  /\ tasks' = [tasks EXCEPT ![t] = Resume(tasks[t].loops, workers)]
  /\ dist' = Gathered(dist, tasks', t, {})
  /\ UNCHANGED <<workers, results, metrics, merged, pureVars>>

\* any other status: printed, nothing else
DispatchRejected(t) ==
  /\ t \in 1..Len(tasks)
  /\ tasks[t].st = "post"
  /\ tasks' = [tasks EXCEPT ![t] = Resume(tasks[t].loops, workers)]
  /\ dist' = Gathered(dist, tasks', t, {})
  /\ UNCHANGED <<workers, results, metrics, held, merged, pureVars>>

\* except Exception: await self.handle_worker_failure(worker_id)
DispatchFailed(t) ==
  /\ t \in 1..Len(tasks)
  /\ tasks[t].st = "post"
  /\ LET tk == tasks[t]
         ws == MarkFailed(workers, tk.w)
         r == Redistribute(tk, results[tk.w], ws)
     IN  /\ workers' = ws
         /\ results' = [results EXCEPT ![tk.w] = <<>>]
         /\ tasks' = [tasks EXCEPT ![t] = r.task]
         /\ dist' = Gathered(dist, tasks', t, r.out)
  /\ UNCHANGED <<metrics, held, merged, pureVars>>

\* ------------------------------------------------------------------- spec
Next ==
  \/ \E id \in WorkerIds : Register(id)
  \/ \E id \in WorkerIds : Health(id)
  \/ \E id \in WorkerIds, s \in Summaries, e \in BOOLEAN : MetricsHandler(id, s, e)
  \/ \E f \in Files : Distribute(f)
  \/ \E t \in 1..NumWorkers : DispatchAcked(t)
  \/ \E t \in 1..NumWorkers : DispatchRejected(t)
  \/ \E t \in 1..NumWorkers : DispatchFailed(t)

Spec == Init /\ [][Next]_vars

\* --------------------------------------------- the partition loop on its own
\* distribute_work from file_size = os.path.getsize(filepath) on, for a file
\* of any size and any number of available workers, one loop turn per step.
PartSizes == (0..MaxPartSize) \cup {300}

PartInit ==
  /\ CoordInit
  /\ part \in { [file_size |-> s, n |-> n, idx |-> 0, ranges |-> <<>>] :
                  s \in PartSizes, n \in 1..MaxPartWorkers }
  /\ agg = AnalyzerInit
  /\ aggLog = <<>>
  /\ http = HttpIdle
  /\ wk = WorkerIdle

\* for idx, worker_id in enumerate(available_workers): start = ...; size = ...
PartStep ==
  /\ part.idx < part.n
  /\ LET chunk_size == ChunkSize(part.file_size, part.n)
     IN  part' = [part EXCEPT
                    !.idx = part.idx + 1,
                    !.ranges = Append(part.ranges,
                       [ start |-> ChunkStart(part.idx, chunk_size),
                         size |-> ChunkLen(part.idx, part.n, chunk_size, part.file_size) ])]
  /\ UNCHANGED <<coordVars, agg, aggLog, http, wk>>

PartNext == PartStep

SpecPart == PartInit /\ [][PartNext]_vars

\* ------------------------------------------------- the aggregators on their own
\* Both Analyzer classes fed the same chunk summaries, in any order and any
\* number of times each.
MaxMerges == 3

AggSummaries ==
  { WorkerResults(0, 0, 0, NoSeconds),
    WorkerResults(1, 0, 3, [k \in {"12:00:01"} |-> 1]),
    WorkerResults(2, 1, 4, [k \in {"12:00:01", "12:00:02"} |-> 1]),
    WorkerResults(7, 2, 29, [k \in {"12:00:01", "12:00:02"} |->
                               IF k = "12:00:01" THEN 3 ELSE 4]),
    WorkerResults(22, 15, 44, [k \in {"12:00:02"} |-> 22]) }

AggInit == Init

\* analyzer.update_metrics(s) on each Analyzer
AggMerge(s) ==
  /\ Len(aggLog) < MaxMerges
  /\ agg' = UpdateMetrics(agg, s)
  /\ metrics' = CoordUpdateMetrics(metrics, s)
  /\ aggLog' = Append(aggLog, s)
  /\ UNCHANGED <<workers, results, dist, tasks, held, merged, part, http, wk>>

AggNext == \E s \in AggSummaries : AggMerge(s)

SpecAgg == AggInit /\ [][AggNext]_vars

\* ================================================================ claims
IsHealthy(ws, id) == \E k \in 1..Len(ws) : ws[k].id = id /\ ws[k].healthy

Posting(ts, id) == {t \in 1..Len(ts) : ts[t].st = "post" /\ ts[t].w = id}

\* The step in which task t's post raised: the task moved on and the worker it
\* was posting to went from healthy to failed.
FailedStep(t) ==
  /\ tasks[t].st = "post"
  /\ t \in 1..Len(tasks')
  /\ tasks'[t] # tasks[t]
  /\ IsHealthy(workers, tasks[t].w)
  /\ ~IsHealthy(workers', tasks[t].w)

\* C1: for S > 0 and N > 0 the loop issues N ranges, the i-th starting at
\* i*floor(S/N), of size floor(S/N) except the last of size
\* S-(N-1)*floor(S/N); they are contiguous and every byte of [0, S) lies in
\* exactly one of them.
C1_Tiling ==
  (part.n > 0 /\ part.file_size > 0 /\ part.idx = part.n) =>
    LET S == part.file_size
        N == part.n
        r == part.ranges
    IN  /\ Len(r) = N
        /\ \A i \in 0..(N - 1) :
             /\ r[i + 1].start = i * (S \div N)
             /\ r[i + 1].size = IF i < N - 1 THEN S \div N ELSE S - (N - 1) * (S \div N)
             /\ r[i + 1].size >= 0
        /\ r[1].start = 0
        /\ \A i \in 1..(N - 1) : r[i].start + r[i].size = r[i + 1].start
        /\ r[N].start + r[N].size = S
        /\ \A b \in 0..(S - 1) :
             Cardinality({i \in 1..N : r[i].start <= b /\ b < r[i].start + r[i].size}) = 1

C1_Witness ==
  /\ part.file_size = 300
  /\ part.n = 3
  /\ part.idx = 3
  /\ part.ranges = << [start |-> 0, size |-> 100], [start |-> 100, size |-> 100],
                      [start |-> 200, size |-> 100] >>

\* C2: a distribute call made while no registered worker is healthy (or none
\* is registered) prints NoAvailableWorkers, returns, posts nothing, and
\* leaves the registry, the stored results and the aggregate unchanged.
C2_NoWorkersNoMutation ==
  [][ (dist'.calls # dist.calls /\ \A k \in 1..Len(workers) : ~workers[k].healthy)
        => /\ dist'.pc = "returned"
           /\ "NoAvailableWorkers" \in dist'.out
           /\ \A t \in 1..Len(tasks') : tasks'[t].st # "post"
           /\ workers' = workers
           /\ results' = results
           /\ metrics' = metrics
           /\ held' = held ]_vars

C2_Witness ==
  /\ dist.pc = "returned"
  /\ "NoAvailableWorkers" \in dist.out
  /\ Len(workers) >= 2
  /\ \A k \in 1..Len(workers) : ~workers[k].healthy

\* C3: when a post fails while another worker is healthy, the same assignment
\* (file path, start, size) is posted again to a worker that is still healthy.
C3_RedispatchVerbatim ==
  [][ \A t \in 1..Len(tasks) :
        (FailedStep(t) /\ \E k \in 1..Len(workers') : workers'[k].healthy)
          => /\ tasks'[t].st = "post"
             /\ tasks'[t].asg = tasks[t].asg
             /\ tasks'[t].w # tasks[t].w
             /\ IsHealthy(workers', tasks'[t].w) ]_vars

\* C4: one failure causes at most one re-dispatch: the loop of
\* redistribute_failed_tasks never goes on to a second worker.
C4_SingleRedispatch ==
  \A t \in 1..Len(tasks) :
    \A k \in 1..Len(tasks[t].loops) : tasks[t].loops[k].i <= 1

\* An assignment some worker acknowledged (and holds or has reported).
Accepted(c) ==
  \/ \E w \in WorkerIds : \E k \in 1..Len(held[w]) : held[w][k] = c
  \/ c \in BagToSet(merged)

\* C5: a distribute call that ends with a chunk no worker accepted tells its
\* caller so: its result is Unrecoverable, not the result of full success.
C5_DegradedReported ==
  (dist.pc \in {"returned", "raised"} /\ \E c \in dist.chunks : ~Accepted(c))
    => dist.ret = "Unrecoverable"

\* C6: the summary of an assignment is merged into the aggregate at most once.
C6_MergedOnce ==
  \A a \in BagToSet(merged) : CopiesIn(a, merged) <= 1

\* C10: a worker has at most one outstanding assignment (posted and not yet
\* answered, or acknowledged and not yet reported).
C10_OneOutstanding ==
  \A w \in WorkerIds : Len(held[w]) + Cardinality(Posting(tasks, w)) <= 1


\* ------------------------------------------------------- aggregation claims
\* update_metrics called on a fresh analyzer.Analyzer with each of seq in turn
RECURSIVE MergeAll(_)
MergeAll(seq) ==
  IF seq = <<>>
  THEN AnalyzerInit
  ELSE UpdateMetrics(MergeAll(SubSeq(seq, 1, Len(seq) - 1)), seq[Len(seq)])

\* the same on a fresh coordinator.Analyzer
RECURSIVE CoordMergeAll(_)
CoordMergeAll(seq) ==
  IF seq = <<>>
  THEN [error_count |-> 0, total_response_time |-> 0, request_count |-> 0]
  ELSE CoordUpdateMetrics(CoordMergeAll(SubSeq(seq, 1, Len(seq) - 1)), seq[Len(seq)])

\* the orders in which n summaries can be merged
Orders(n) == {p \in [1..n -> 1..n] : \A i, j \in 1..n : p[i] = p[j] => i = j}

Reordered(seq, p) == [i \in 1..Len(seq) |-> seq[p[i]]]

\* the sum of the response times of the merged summaries
RECURSIVE SumResponseTimes(_)
SumResponseTimes(seq) ==
  IF seq = <<>> THEN 0
  ELSE seq[1].total_response_time + SumResponseTimes(Tail(seq))

CountOr0(seconds, k) == IF k \in DOMAIN seconds THEN seconds[k] ELSE 0

\* C7: merging the same chunk summaries into a fresh aggregator in any other
\* order gives the same aggregate state: totals, error rate, average response
\* time and per-second request counts.
C7_OrderIndependent ==
  \A p \in Orders(Len(aggLog)) : MergeAll(Reordered(aggLog, p)) = agg

\* C8: merging a summary a second time adds its request count, its error
\* count, its response-time total and each of its per-second counts once
\* more, and when the summary has requests the aggregate differs from the
\* one after the first merge.
C8_DoubleMergeDoubles ==
  LET n == Len(aggLog)
  IN  (n >= 2 /\ aggLog[n] = aggLog[n - 1]) =>
        LET s == aggLog[n]
            base == MergeAll(SubSeq(aggLog, 1, n - 2))
            cbase == CoordMergeAll(SubSeq(aggLog, 1, n - 2))
            once == UpdateMetrics(base, s)
            x == FMulInt(s.avg_response_time, s.request_count)
        IN  /\ agg.total_requests = base.total_requests + 2 * s.request_count
            /\ agg.total_errors = base.total_errors + 2 * s.error_count
            /\ agg.total_response_time = FAdd(FAdd(base.total_response_time, x), x)
            /\ \A k \in DOMAIN s.request_count_per_second :
                 agg.request_count_per_second[k] =
                   CountOr0(base.request_count_per_second, k)
                   + 2 * s.request_count_per_second[k]
            /\ metrics.request_count = cbase.request_count + 2 * s.request_count
            /\ metrics.error_count = cbase.error_count + 2 * s.error_count
            /\ metrics.total_response_time =
                 cbase.total_response_time + 2 * s.total_response_time
            /\ s.request_count > 0 =>
                 /\ GetCurrentMetrics(agg) # GetCurrentMetrics(once)
                 /\ CoordGetCurrentMetrics(metrics)
                      # CoordGetCurrentMetrics(CoordUpdateMetrics(cbase, s))

C8_Witness ==
  /\ Len(aggLog) = 3
  /\ aggLog[2] = aggLog[3]
  /\ aggLog[1] # aggLog[2]
  /\ aggLog[1].request_count > 0
  /\ aggLog[2].request_count > 0
  /\ aggLog[2].avg_response_time # FZero
  /\ agg.total_requests = aggLog[1].request_count + 2 * aggLog[2].request_count
  /\ \E k \in DOMAIN aggLog[1].request_count_per_second :
       k \in DOMAIN aggLog[2].request_count_per_second

IsFailed(ws, id) == \E k \in 1..Len(ws) : ws[k].id = id /\ ~ws[k].healthy

\* C11: a heartbeat from a worker that has been marked failed leaves it
\* failed (not eligible for dispatch); only a registration brings it back.
C11_HeartbeatKeepsFailed ==
  [][ \A id \in WorkerIds :
        (IsFailed(workers, id) /\ Health(id)) => IsFailed(workers', id) ]_vars

\* ------------------------------------------ the coordinator with silent workers
\* The coordinator when no worker ever posts a heartbeat. Nothing in
\* coordinator.py runs on a timer: the only steps it takes by itself are the
\* completions of the posts it has in flight, each of which returns or raises
\* in the end.
Resolve(t) == DispatchAcked(t) \/ DispatchRejected(t) \/ DispatchFailed(t)

SilentNext ==
  \/ \E id \in WorkerIds : Register(id)
  \/ \E id \in WorkerIds, s \in Summaries, e \in BOOLEAN : MetricsHandler(id, s, e)
  \/ \E f \in Files : Distribute(f)
  \/ \E t \in 1..NumWorkers : DispatchAcked(t)
  \/ \E t \in 1..NumWorkers : DispatchRejected(t)
  \/ \E t \in 1..NumWorkers : DispatchFailed(t)

SpecSilent ==
  /\ Init
  /\ [][SilentNext]_vars
  /\ \A t \in 1..NumWorkers : WF_vars(Resolve(t))

\* C12: a registered worker that sends no heartbeat does not stay healthy
\* forever: the coordinator eventually marks it failed.
C12_SilentWorkerFails ==
  \A id \in WorkerIds : IsHealthy(workers, id) ~> IsFailed(workers, id)

\* ---------------------------------------------------------- dispatch claims
\* C13: a post that ends without an ack (it raised, or the worker answered
\* with an error status) marks the worker it was sent to as failed.
C13_NonAckIsFailure ==
  [][ \A t \in 1..Len(tasks) :
        ( /\ tasks[t].st = "post"
          /\ t \in 1..Len(tasks')
          /\ tasks'[t] # tasks[t]
          /\ held' = held )
          => IsFailed(workers', tasks[t].w) ]_vars

\* ------------------------------------------- the coordinator's HTTP server
\* The requests the coordinator is sent, each handler run from one suspension
\* point to the next. FastAPI answers a request no route matches with 404 and
\* an exception a handler raises with 500.
MaxRequests == 3

HttpWorkers == 1..2

\* register_routes
Routes ==
  { [method |-> "POST", name |-> "register"],
    [method |-> "POST", name |-> "health"],
    [method |-> "POST", name |-> "metrics"],
    [method |-> "GET", name |-> "metrics"] }

\* the keys of the results dict process_work builds
ResultKeys ==
  {"request_count", "error_count", "error_rate", "avg_response_time",
   "request_count_per_second"}

\* the keys coordinator.Analyzer.update_metrics reads
TotalKeys == {"error_count", "total_response_time", "request_count"}

\* the results dicts workers report
HttpResults ==
  { WorkerResults(0, 0, 0, NoSeconds),
    WorkerResults(1, 1, 0, [k \in {"12:00:01"} |-> 1]) }

NoDict == [keys |-> {}, error_count |-> 0, total_response_time |-> 0, request_count |-> 0]

\* a results dict as a JSON object; it has no total_response_time key
ResultsDict(s) ==
  [ keys |-> ResultKeys,
    error_count |-> s.error_count,
    total_response_time |-> 0,
    request_count |-> s.request_count ]

\* the three totals as a JSON object
TotalsDict(s) ==
  [ keys |-> TotalKeys,
    error_count |-> s.error_count,
    total_response_time |-> s.total_response_time,
    request_count |-> s.request_count ]

\* report_results: session.post(f"{coordinator_url}/report_results/{worker_id}",
\* json=results)
\* The body is the results dict itself: its keys are the body's keys, and its
\* values are kept in the metrics field.
ReportRequest(id, s) ==
  [ method |-> "POST", name |-> "report_results", arg |-> id, pc |-> "arrived",
    body |-> [keys |-> ResultKeys, worker_id |-> 0, port |-> 0, metrics |-> ResultsDict(s)] ]

\* POST /metrics with the body metrics_handler reads: worker_id and metrics
MetricsRequest(id, d) ==
  [ method |-> "POST", name |-> "metrics", arg |-> 0, pc |-> "arrived",
    body |-> [keys |-> {"worker_id", "metrics"}, worker_id |-> id, port |-> 0, metrics |-> d] ]

\* POST /register with the body register_worker reads: worker_id and port
RegisterRequest(id, port) ==
  [ method |-> "POST", name |-> "register", arg |-> 0, pc |-> "arrived",
    body |-> [keys |-> {"worker_id", "port"}, worker_id |-> id, port |-> port,
              metrics |-> NoDict] ]

\* the addresses a worker registers with
HttpPorts(id) == {PortOf(id), PortOf(id) + 100}

\* GET /metrics
SnapshotRequest ==
  [ method |-> "GET", name |-> "metrics", arg |-> 0, pc |-> "arrived",
    body |-> [keys |-> {}, worker_id |-> 0, port |-> 0, metrics |-> NoDict] ]

\* the metrics dicts posted to /metrics: the three totals, or a results dict
\* as worker.py builds it
PostedDicts ==
  {TotalsDict(s) : s \in Summaries} \cup {ResultsDict(s) : s \in HttpResults}

Routed(r) == r.arg = 0 /\ [method |-> r.method, name |-> r.name] \in Routes

Without(seq, k) == SubSeq(seq, 1, k - 1) \o SubSeq(seq, k + 1, Len(seq))

\* Analyzer.update_metrics (coordinator.py) on a dict that may lack a key:
\* the three += in order, up to the first KeyError
UpdateOrRaise(m, d) ==
  IF "error_count" \notin d.keys
  THEN [m |-> m, raised |-> TRUE]
  ELSE LET m1 == [m EXCEPT !.error_count = @ + d.error_count]
       IN  IF "total_response_time" \notin d.keys
           THEN [m |-> m1, raised |-> TRUE]
           ELSE LET m2 == [m1 EXCEPT !.total_response_time = @ + d.total_response_time]
                IN  IF "request_count" \notin d.keys
                    THEN [m |-> m2, raised |-> TRUE]
                    ELSE [m |-> [m2 EXCEPT !.request_count = @ + d.request_count],
                          raised |-> FALSE]

\* the server with one more request on its way
Sent(r) == [http EXCEPT !.reqs = Append(@, r), !.sent = @ + 1]

\* a worker ends process_work with report_results(results)
WorkerReport(id, s) ==
  /\ http.sent < MaxRequests
  /\ http' = Sent(ReportRequest(id, s))
  /\ UNCHANGED <<coordVars, part, agg, aggLog, wk>>

PostMetrics(id, d) ==
  /\ http.sent < MaxRequests
  /\ http' = Sent(MetricsRequest(id, d))
  /\ UNCHANGED <<coordVars, part, agg, aggLog, wk>>

PostRegister(id, port) ==
  /\ http.sent < MaxRequests
  /\ http' = Sent(RegisterRequest(id, port))
  /\ UNCHANGED <<coordVars, part, agg, aggLog, wk>>

GetMetrics ==
  /\ http.sent < MaxRequests
  /\ http' = Sent(SnapshotRequest)
  /\ UNCHANGED <<coordVars, part, agg, aggLog, wk>>

Reply(r, status, snap) ==
  [ name |-> r.name, method |-> r.method, arg |-> r.arg, body |-> r.body,
    status |-> status, snap |-> snap, merged |-> http.log ]

NoSnap == CoordGetCurrentMetrics(NoDict)

\* A request reaches the server: no route gives 404; get_metrics_handler runs
\* to its return; a POST handler starts and suspends at await request.json().
Serve(k) ==
  /\ k \in 1..Len(http.reqs)
  /\ http.reqs[k].pc = "arrived"
  /\ LET r == http.reqs[k]
     IN  IF ~Routed(r)
         THEN http' = [http EXCEPT !.reqs = Without(@, k),
                                   !.replies = Append(@, Reply(r, 404, NoSnap))]
         ELSE IF r.method = "GET"
         THEN http' = [http EXCEPT
                         !.reqs = Without(@, k),
                         !.replies = Append(@, Reply(r, 200, CoordGetCurrentMetrics(metrics)))]
         ELSE http' = [http EXCEPT !.reqs[k].pc = "json"]
  /\ UNCHANGED <<coordVars, part, agg, aggLog, wk>>

\* metrics_handler from data = await request.json() to its return
MetricsHandlerBody(k) ==
  /\ k \in 1..Len(http.reqs)
  /\ http.reqs[k].pc = "json"
  /\ http.reqs[k].name = "metrics"
  /\ LET r == http.reqs[k]
         d == r.body.metrics
         u == UpdateOrRaise(metrics, d)
     IN  IF ~({"worker_id", "metrics"} \subseteq r.body.keys)
         THEN /\ http' = [http EXCEPT !.reqs = Without(@, k),
                                      !.replies = Append(@, Reply(r, 500, NoSnap))]
              /\ UNCHANGED <<results, metrics>>
         ELSE /\ results' = [results EXCEPT ![r.body.worker_id] = <<d>>]
              /\ metrics' = u.m
              /\ http' = [http EXCEPT
                            !.reqs = Without(@, k),
                            !.log = IF u.raised THEN @ ELSE Append(@, d),
                            !.replies = Append(@, Reply(r, IF u.raised THEN 500 ELSE 200,
                                                        NoSnap))]
  /\ UNCHANGED <<workers, dist, tasks, held, merged, part, agg, aggLog, wk>>

\* register_worker from data = await request.json() to its return
RegisterHandlerBody(k) ==
  /\ k \in 1..Len(http.reqs)
  /\ http.reqs[k].pc = "json"
  /\ http.reqs[k].name = "register"
  /\ LET r == http.reqs[k]
     IN  /\ workers' = RegisterWorker(workers, r.body.worker_id, r.body.port)
         /\ http' = [http EXCEPT !.reqs = Without(@, k),
                                 !.replies = Append(@, Reply(r, 200, NoSnap))]
  /\ UNCHANGED <<results, metrics, dist, tasks, held, merged, part, agg, aggLog, wk>>

HttpNext ==
  \/ \E id \in HttpWorkers : \E port \in HttpPorts(id) : PostRegister(id, port)
  \/ \E id \in HttpWorkers, s \in HttpResults : WorkerReport(id, s)
  \/ \E id \in HttpWorkers, d \in PostedDicts : PostMetrics(id, d)
  \/ GetMetrics
  \/ \E k \in 1..MaxRequests : Serve(k)
  \/ \E k \in 1..MaxRequests : MetricsHandlerBody(k)
  \/ \E k \in 1..MaxRequests : RegisterHandlerBody(k)

SpecHttp == Init /\ [][HttpNext]_vars

\* ------------------------------------------------------------ report claims
\* request k is answered in this step
Answered(k) ==
  /\ k \in 1..Len(http.reqs)
  /\ http'.reqs = Without(http.reqs, k)
  /\ Len(http'.replies) = Len(http.replies) + 1

\* C14: when a worker reports the summary of a chunk, the coordinator accepts
\* the report and merges it: the aggregate's request and error totals (and
\* its response-time total) grow by the summary's values.
C14_ReportMerged ==
  [][ \A k \in 1..Len(http.reqs) :
        (http.reqs[k].name = "report_results" /\ Answered(k))
          => LET s == http.reqs[k].body.metrics
             IN  /\ http'.replies[Len(http'.replies)].status = 200
                 /\ metrics'.request_count = metrics.request_count + s.request_count
                 /\ metrics'.error_count = metrics.error_count + s.error_count ]_vars

\* ---------------------------------------------------------- register claims
\* the registrations answered so far, oldest first
Registrations(replies) == SelectSeq(replies, LAMBDA y : y.name = "register")

RecordsOf(ws, id) == {k \in 1..Len(ws) : ws[k].id = id}

\* C15: registering a worker_id again with the same address leaves the
\* registry as the first registration left it, never gives the id a second
\* record, and changes no other worker's record.
C15_RegisterIdempotent ==
  [][ \A k \in 1..Len(http.reqs) :
        (http.reqs[k].name = "register" /\ Answered(k))
          => LET b == http.reqs[k].body
                 before == Registrations(http.replies)
             IN  /\ Cardinality(RecordsOf(workers', b.worker_id)) = 1
                 /\ \A j \in 1..Len(workers) :
                      workers[j].id # b.worker_id => workers'[j] = workers[j]
                 /\ ( /\ before # <<>>
                      /\ before[Len(before)].body = b )
                      => workers' = workers ]_vars

C15_Witness ==
  LET regs == Registrations(http.replies)
  IN  /\ Len(regs) = 3
      /\ regs[1].body.worker_id # regs[2].body.worker_id
      /\ regs[2].body = regs[3].body
      /\ Len(workers) = 2
      /\ workers[2].id = regs[3].body.worker_id
      /\ workers[2].port = regs[3].body.port

\* ---------------------------------------------------------- snapshot claims
\* the metrics dicts of the POST /metrics requests sent so far
PostedSoFar ==
  LET posts(seq) == SelectSeq(seq, LAMBDA y : y.name = "metrics" /\ y.method = "POST")
      done == posts(http.replies)
      going == posts(http.reqs)
  IN  [i \in 1..Len(done) |-> done[i].body.metrics]
      \o [i \in 1..Len(going) |-> going[i].body.metrics]

\* the members of seq at the positions in S
Chosen(seq, S) ==
  LET F[i \in 0..Len(seq)] ==
        IF i = 0 THEN <<>>
        ELSE IF i \in S THEN Append(F[i - 1], seq[i]) ELSE F[i - 1]
  IN  F[Len(seq)]

\* C16: every snapshot GET /metrics returns is the aggregate of a whole
\* number of completely applied merges: of some of the reports sent so far,
\* each with all of its fields added.
C16_SnapshotsWhole ==
  \A i \in 1..Len(http.replies) :
    (http.replies[i].method = "GET" /\ http.replies[i].status = 200)
      => \E S \in SUBSET (1..Len(PostedSoFar)) :
           http.replies[i].snap
             = CoordGetCurrentMetrics(CoordMergeAll(Chosen(PostedSoFar, S)))

\* ================================================================ the worker
\* ------------------------------------------------------- LogEntry.from_line
\* A line is the sequence of its space-separated tokens, so
\* line.split(' ', 3) is its first three tokens and the rest as the message.
ValidDates == {"2024-01-24"}

\* the time tokens strptime accepts with %H:%M:%S.%f, and the second each
\* falls in (request_time.replace(microsecond=0))
SecondOf ==
  [ t \in {"10:15:32.123", "10:15:32.900", "10:15:33.001", "10:15:33.500"} |->
      IF t \in {"10:15:32.123", "10:15:32.900"} THEN "10:15:32" ELSE "10:15:33" ]

\* the message tokens that contain "ms"
MsTokens == {"127ms", "30ms", "items"}

\* int(token[:-2]) where it succeeds
IntBeforeMs == [t \in {"127ms", "30ms"} |-> IF t = "127ms" THEN 127 ELSE 30]

NoEntry ==
  [ok |-> FALSE, date |-> "", time |-> "", level |-> "", has_rt |-> FALSE, response_time |-> 0]

\* LogEntry.from_line: None (NoEntry) for a line with fewer than 4 parts or a
\* timestamp strptime rejects; otherwise the entry, with a response_time when
\* the message contains "ms" and its fourth word is an integer followed by
\* two characters
FromLine(line) ==
  IF Len(line) < 4
  THEN NoEntry
  ELSE IF ~(line[1] \in ValidDates /\ line[2] \in DOMAIN SecondOf)
  THEN NoEntry
  ELSE LET message == SubSeq(line, 4, Len(line))
           has_ms == \E i \in 1..Len(message) : message[i] \in MsTokens
           has_rt == has_ms /\ Len(message) >= 4 /\ message[4] \in DOMAIN IntBeforeMs
       IN  [ ok |-> TRUE, date |-> line[1], time |-> line[2], level |-> line[3],
             has_rt |-> has_rt,
             response_time |-> IF has_rt THEN IntBeforeMs[message[4]] ELSE 0 ]

\* ------------------------------------------------------ Worker.process_work
MaxLines == 3

LinePool ==
  { <<"2024-01-24", "10:15:32.123", "INFO", "Request", "processed", "in", "127ms">>,
    <<"2024-01-24", "10:15:32.900", "ERROR", "Database", "query", "took", "30ms">>,
    <<"2024-01-24", "10:15:33.001", "ERROR", "Timeout">>,
    <<"2024-01-24", "10:15:33.500", "WARN", "processed", "5", "items">>,
    <<"not-a-date", "10:15:32.123", "INFO", "started">>,
    <<"garbage">> }

\* request_times = [], error_count = 0, total_response_time = 0, total_requests = 0
ZeroCounts ==
  [request_times |-> <<>>, error_count |-> 0, total_response_time |-> 0, total_requests |-> 0]

\* the loop body counting every line, parsed or not
CountEveryLine(c, line) ==
  LET log_entry == FromLine(line)
  IN  [ c EXCEPT
          !.total_requests = @ + 1,
          !.request_times = Append(@, [date |-> log_entry.date, time |-> log_entry.time]),
          !.error_count = IF log_entry.level = "ERROR" THEN @ + 1 ELSE @,
          !.total_response_time = IF log_entry.has_rt THEN @ + log_entry.response_time ELSE @ ]

\* the body of "for line in lines"
CountLine(c, line) ==
  LET log_entry == FromLine(line)
  IN  IF log_entry.ok
      THEN [ c EXCEPT
               !.total_requests = @ + 1,
               !.request_times = Append(@, [date |-> log_entry.date, time |-> log_entry.time]),
               !.error_count = IF log_entry.level = "ERROR" THEN @ + 1 ELSE @,
               !.total_response_time =
                  IF log_entry.has_rt THEN @ + log_entry.response_time ELSE @ ]
      ELSE c

\* second = request_time.replace(microsecond=0), as the dict key
SecondKey(request_time) ==
  IF request_time.time \in DOMAIN SecondOf
  THEN <<request_time.date, SecondOf[request_time.time]>>
  ELSE <<request_time.date, request_time.time>>

\* request_count_per_second[second] += 1 for each request time
RequestCountPerSecond(request_times) ==
  [ k \in {SecondKey(request_times[i]) : i \in 1..Len(request_times)} |->
      Cardinality({i \in 1..Len(request_times) : SecondKey(request_times[i]) = k}) ]

\* the results dict process_work ends with
ResultsOf(c) ==
  WorkerResults(c.total_requests, c.error_count, c.total_response_time,
                RequestCountPerSecond(c.request_times))

NoResults == WorkerResults(0, 0, 0, NoSeconds)

\* process_work(work) called by assign_work, for a chunk that can be read
\* (its lines) or cannot
WorkInputs ==
  { [ op |-> "process_work", pc |-> "open", readable |-> r, lines |-> ls, i |-> 0,
      counts |-> ZeroCounts, reported |-> FALSE, results |-> NoResults, printed |-> "" ] :
      r \in BOOLEAN, ls \in UNION {[1..n -> LinePool] : n \in 0..MaxLines} }

\* with open(file_path, 'r') as file: file.seek(start); chunk = file.read(size).
\* An OSError leaves process_work and is caught by assign_work's except
\* clause, which prints and returns.
OpenChunk ==
  /\ wk.op = "process_work"
  /\ wk.pc = "open"
  /\ wk' = IF wk.readable
           THEN [wk EXCEPT !.pc = "loop"]
           ELSE [wk EXCEPT !.pc = "done", !.printed = "failed to connect to coordinator"]
  /\ UNCHANGED <<coordVars, part, agg, aggLog, http>>

\* one turn of "for line in lines"
CountStep ==
  /\ wk.op = "process_work"
  /\ wk.pc = "loop"
  /\ wk.i < Len(wk.lines)
  /\ wk' = [wk EXCEPT !.i = @ + 1, !.counts = CountLine(@, wk.lines[wk.i + 1])]
  /\ UNCHANGED <<coordVars, part, agg, aggLog, http>>

\* after the loop: the results dict, and await self.report_results(results)
ReportStep ==
  /\ wk.op = "process_work"
  /\ wk.pc = "loop"
  /\ wk.i = Len(wk.lines)
  /\ wk' = [wk EXCEPT !.pc = "done", !.reported = TRUE, !.results = ResultsOf(wk.counts)]
  /\ http' = Sent(ReportRequest(1, ResultsOf(wk.counts)))
  /\ UNCHANGED <<coordVars, part, agg, aggLog>>

\* ----------------------------------------------------- Worker.process_chunk
\* time.time() and process.memory_info().rss are read from the system: the
\* clock is the wall clock, which can be set back between two readings, and
\* the resident set can shrink as well as grow.
MaxClock == 2

MaxRss == 2

ChunkSizes == {0, 4}

ChunkInputs ==
  { [ op |-> "process_chunk", pc |-> "start", size |-> s, start_time |-> 0,
      initial_memory |-> 0, returned |-> FALSE,
      ret |-> [duration |-> 0, memory_used |-> 0, processing_speed |-> FZero] ] :
      s \in ChunkSizes }

\* start_time = time.time(); initial_memory = process.memory_info().rss; then
\* await self.simulate_log_processing(...)
BeginChunk(now, rss) ==
  /\ wk.op = "process_chunk"
  /\ wk.pc = "start"
  /\ wk' = [wk EXCEPT !.pc = "sleep", !.start_time = now, !.initial_memory = rss]
  /\ UNCHANGED <<coordVars, part, agg, aggLog, http>>

\* the dict process_chunk returns
ChunkMetrics(size, start_time, initial_memory, now, rss) ==
  LET duration == now - start_time
      peak_memory == rss
  IN  [ duration |-> duration,
        memory_used |-> peak_memory - initial_memory,
        processing_speed |->
          IF duration > 0 THEN FDivInt(FromInt(size), duration) ELSE FZero ]

\* from duration = time.time() - start_time to the return
EndChunk(now, rss) ==
  /\ wk.op = "process_chunk"
  /\ wk.pc = "sleep"
  /\ wk' = [wk EXCEPT
              !.pc = "done",
              !.returned = TRUE,
              !.ret = ChunkMetrics(wk.size, wk.start_time, wk.initial_memory, now, rss)]
  /\ UNCHANGED <<coordVars, part, agg, aggLog, http>>

\* --------------------------------------------------------------- worker spec
WorkerInit ==
  /\ CoordInit
  /\ part = NoPart
  /\ agg = AnalyzerInit
  /\ aggLog = <<>>
  /\ http = HttpIdle
  /\ wk \in WorkInputs \cup ChunkInputs

WorkerNext ==
  \/ OpenChunk
  \/ CountStep
  \/ ReportStep
  \/ \E now \in 0..MaxClock, rss \in 1..MaxRss : BeginChunk(now, rss)
  \/ \E now \in 0..MaxClock, rss \in 1..MaxRss : EndChunk(now, rss)

SpecWorker == WorkerInit /\ [][WorkerNext]_vars

\* ------------------------------------------------------------- worker claims
\* C17: when the chunk cannot be read, process_work does not lose the
\* failure: it still ends with a report to the coordinator, with zero counts
\* (and marked as a processing failure).
C17_ReadFailureReported ==
  (wk.op = "process_work" /\ wk.pc = "done" /\ ~wk.readable)
    => /\ wk.reported
       /\ wk.results.request_count = 0

\* C18: the record process_chunk returns holds duration, memory_used and
\* processing_speed, none of them negative (processing_speed is 0 or the
\* quotient of a size by a positive duration).
C18_ChunkMetricsNonNegative ==
  (wk.op = "process_chunk" /\ wk.pc = "done")
    => /\ wk.returned
       /\ wk.ret.duration >= 0
       /\ wk.ret.memory_used >= 0
       /\ (wk.ret.duration <= 0 => wk.ret.processing_speed = FZero)

\* the sum of the values of a dict
RECURSIVE SumValues(_)
SumValues(f) ==
  IF DOMAIN f = {}
  THEN 0
  ELSE LET k == CHOOSE x \in DOMAIN f : TRUE
       IN  f[k] + SumValues([x \in DOMAIN f \ {k} |-> f[x]])

\* the positions of the lines from_line parses
ParsedLines(lines) == {i \in 1..Len(lines) : FromLine(lines[i]).ok}

\* C19: the summary process_work builds from a readable chunk counts exactly
\* the lines that parse into a LogEntry, whatever malformed lines stand
\* between them: request_count is their number, error_count the number of
\* them with level ERROR, so error_count <= request_count, and the
\* per-second counts sum to request_count. One ERROR line and one malformed
\* line give request_count 1 and error_count 1.
C19_CountsParsedLines ==
  (wk.op = "process_work" /\ wk.pc = "done" /\ wk.readable)
    => LET r == wk.results
           parsed == ParsedLines(wk.lines)
       IN  /\ wk.reported
           /\ r.request_count = Cardinality(parsed)
           /\ r.error_count
                = Cardinality({i \in parsed : FromLine(wk.lines[i]).level = "ERROR"})
           /\ r.error_count <= r.request_count
           /\ SumValues(r.request_count_per_second) = r.request_count
           /\ ( /\ Len(wk.lines) = 2
                /\ Cardinality(parsed) = 1
                /\ \E i \in parsed : FromLine(wk.lines[i]).level = "ERROR" )
                => (r.request_count = 1 /\ r.error_count = 1)

C19_Witness ==
  /\ wk.op = "process_work"
  /\ wk.pc = "done"
  /\ wk.readable
  /\ wk.lines = << <<"2024-01-24", "10:15:33.001", "ERROR", "Timeout">>, <<"garbage">> >>
  /\ wk.results.request_count = 1
  /\ wk.results.error_count = 1
  /\ wk.results.request_count_per_second = [k \in {<<"2024-01-24", "10:15:33">>} |-> 1]

\* ----------------------------------------------------------- barrier claims
\* C20: when a distribute_work call completes, with a return or with an
\* exception, none of the posts it caused (first dispatches and
\* re-dispatches) is still in flight.
C20_BarrierResolved ==
  dist.pc \in {"returned", "raised"} => \A t \in 1..Len(tasks) : tasks[t].st # "post"

\* ------------------------------- distribute_work with a quiet worker registry
\* The coordinator when no POST /register and no POST /health is served while
\* a dispatch is in flight. Each session.post returns or raises in the end
\* (aiohttp's ClientSession has a total timeout), which is the fairness below.
QuietRegister(id) == AllSettled(tasks) /\ Register(id)

QuietHealth(id) == AllSettled(tasks) /\ Health(id)

QuietNext ==
  \/ \E id \in WorkerIds : QuietRegister(id)
  \/ \E id \in WorkerIds : QuietHealth(id)
  \/ \E id \in WorkerIds, s \in Summaries, e \in BOOLEAN : MetricsHandler(id, s, e)
  \/ \E f \in Files : Distribute(f)
  \/ \E t \in 1..NumWorkers : DispatchAcked(t)
  \/ \E t \in 1..NumWorkers : DispatchRejected(t)
  \/ \E t \in 1..NumWorkers : DispatchFailed(t)

SpecQuiet ==
  /\ Init
  /\ [][QuietNext]_vars
  /\ \A t \in 1..NumWorkers : WF_vars(Resolve(t))

\* Task t starts a post from a redistribute_failed_tasks loop in this step.
Redispatches(t) ==
  /\ t \in 1..Len(tasks)
  /\ tasks[t].st = "post"
  /\ tasks'[t].st = "post"
  /\ tasks'[t].loops # <<>>
  /\ tasks'[t] # tasks[t]

\* The nesting of redistribute_failed_tasks calls in task t.
Depth(t) == Len(tasks[t].loops)

\* C21, first part: a running distribute_work call ends, and so does every
\* coroutine it gathered, whichever posts fail.
C21_Terminates ==
  /\ (dist.pc = "running") ~> (dist.pc # "running")
  /\ (dist.pc = "running") ~> AllSettled(tasks)

\* C21, second part: the chain send_chunk_to_worker -> handle_worker_failure
\* -> redistribute_failed_tasks nests fewer times than the call found healthy
\* workers (one task per healthy worker).
C21_DepthBounded == \A t \in 1..Len(tasks) : Depth(t) < Len(tasks)

\* C21, third part: while the call runs, no re-dispatch goes to a worker that
\* is marked failed.
C21_HealthyTargets ==
  [][ \A t \in 1..NumWorkers :
        (dist.pc = "running" /\ Redispatches(t)) => IsHealthy(workers', tasks'[t].w) ]_vars

\* C21: with no register or heartbeat event while a distribute call runs, the
\* call terminates for every pattern of dispatch failures, the failure chain
\* nests no deeper than the number of healthy workers, and no re-dispatch
\* goes to a worker already marked failed.
C21_TerminatesOnHealthyWorkers ==
  /\ C21_Terminates
  /\ []C21_DepthBounded
  /\ C21_HealthyTargets
====
